---- MODULE Spec2Model ----
(***************************************************************************)
(* Model of src/app.py: the grade extractor (process_student_grades), the  *)
(* statistics engine (calculate_class_statistics) and the upload handler   *)
(* that runs both inside one try/except.                                   *)
(*                                                                         *)
(* A text is a sequence of one-character strings, so that strip(),         *)
(* isdigit(), float() and == 'CF' are computed character by character.     *)
(* A cell of the grid is a record [t, v, s]: t = "nan" (empty cell),       *)
(* t = "num" (numeric cell of value v) or t = "str" (text cell s).         *)
(* Numbers are integers: the input alphabet has no fractional literals.    *)
(***************************************************************************)
EXTENDS Integers, Sequences, FiniteSets, TLC

VARIABLES df, pc, col_idx, current_subject, col_mapping, row_idx,
          students_data, result_df, stats, shown, raised

vars == <<df, pc, col_idx, current_subject, col_mapping, row_idx,
          students_data, result_df, stats, shown, raised>>

----------------------------------------------------------------------------
(* Bounds of the input grids.                                              *)
MaxHdrCols == 3
MaxDataRows == 3
MaxStudents == 3
MaxGradeCells == 4

(* Row indices fixed by the source.                                        *)
SUBJECT_ROW_IDX == 11
CF_ROW_IDX == 12
DATA_START_IDX == 13

----------------------------------------------------------------------------
(* Cells and texts.                                                        *)
NaN == [t |-> "nan", v |-> 0, s |-> <<>>]
Num(n) == [t |-> "num", v |-> n, s |-> <<>>]
Str(s) == [t |-> "str", v |-> 0, s |-> s]

\* pd.isna / pd.notna on a scalar cell
isna(c) == c.t = "nan"
notna(c) == ~isna(c)
\* isinstance(x, str)
isstr(c) == c.t = "str"

Digits == {"0", "1", "2", "3", "4", "5", "6", "7", "8", "9"}

DigitVal(ch) ==
  CASE ch = "0" -> 0 [] ch = "1" -> 1 [] ch = "2" -> 2 [] ch = "3" -> 3
    [] ch = "4" -> 4 [] ch = "5" -> 5 [] ch = "6" -> 6 [] ch = "7" -> 7
    [] ch = "8" -> 8 [] ch = "9" -> 9

SetMin(S) == CHOOSE x \in S : \A y \in S : x <= y
SetMax(S) == CHOOSE x \in S : \A y \in S : x >= y

\* 0-based positional access, as .iloc[i] and list indexing
Iloc(seq, i) == seq[i + 1]

\* str.strip(): drop leading and trailing blanks
strip(s) ==
  LET keep == {i \in 1..Len(s) : s[i] # " "}
  IN IF keep = {} THEN <<>> ELSE SubSeq(s, SetMin(keep), SetMax(keep))

\* str.isdigit(): non-empty and every character a digit
isdigit(s) == Len(s) > 0 /\ \A i \in 1..Len(s) : s[i] \in Digits

RECURSIVE DecimalValue(_)
DecimalValue(s) ==
  IF s = <<>> THEN 0
  ELSE 10 * DecimalValue(SubSeq(s, 1, Len(s) - 1)) + DigitVal(s[Len(s)])

\* str(val) of a header cell that is not empty: the header cells of the
\* inputs are texts, and str() of a text is that text
str(c) == c.s

\* float(x): an empty cell stays missing, a number is itself, a text is
\* blank-trimmed and read as [sign] digits; anything else raises ValueError,
\* reported here as ok = FALSE.
float(c) ==
  IF c.t = "nan" THEN [ok |-> TRUE, val |-> NaN]
  ELSE IF c.t = "num" THEN [ok |-> TRUE, val |-> c]
  ELSE LET body == strip(c.s)
           signed == Len(body) > 0 /\ body[1] \in {"+", "-"}
           mag == IF signed THEN SubSeq(body, 2, Len(body)) ELSE body
       IN IF isdigit(mag)
          THEN [ok |-> TRUE,
                val |-> Num(IF signed /\ body[1] = "-"
                            THEN 0 - DecimalValue(mag) ELSE DecimalValue(mag))]
          ELSE [ok |-> FALSE, val |-> NaN]

----------------------------------------------------------------------------
(* Text literals of the source and of the inputs.                          *)
T_CF == <<"C", "F">>
T_ID == <<"I", "D">>
T_Name == <<"N", "a", "m", "e">>
T_Insuficiente == <<"I", "n", "s", "u", "f", "i", "c", "i", "e", "n", "t", "e">>
T_Suficiente == <<"S", "u", "f", "i", "c", "i", "e", "n", "t", "e">>
T_Bom == <<"B", "o", "m">>
T_MuitoBom == <<"M", "u", "i", "t", "o", " ", "B", "o", "m">>
T_Dashes == <<"-", "-">>
T_PORT == <<"P", "O", "R", "T", ".">>
T_Mat == <<"M", "a", "t">>
T_Ing == <<"I", "n", "g">>
T_EF == <<"E", "F">>
T_Hist == <<"H", "i", "s", "t">>
T_Geo == <<"G", "e", "o">>
T_Ana == <<"A", "n", "a">>
T_Media == <<"M", "e", "d", "i", "a">>

\* Python's None for current_subject: a value no text can equal
None == <<"None">>

----------------------------------------------------------------------------
(* Python dicts keep insertion order: a dict is a sequence of entries      *)
(* [key, val] with distinct keys.                                          *)
DictHas(d, k) == \E i \in 1..Len(d) : d[i].key = k
DictGet(d, k) == d[CHOOSE i \in 1..Len(d) : d[i].key = k].val
\* d[k] = v: an existing key keeps its position, a new key goes last
DictSet(d, k, v) ==
  IF DictHas(d, k)
  THEN [i \in 1..Len(d) |-> IF d[i].key = k THEN [key |-> k, val |-> v] ELSE d[i]]
  ELSE Append(d, [key |-> k, val |-> v])
DictKeys(d) == [i \in 1..Len(d) |-> d[i].key]

\* df.shape[1]; every row of a grid has the same width
NCols(grid) == IF Len(grid) = 0 THEN 0 ELSE Len(grid[1])

\* bool(current_subject): None and the empty text are falsy
Truthy(subject) == subject # None /\ subject # <<>>

\* grade_map of process_student_grades
grade_map ==
  (T_Insuficiente :> Num(2)) @@ (T_Suficiente :> Num(3)) @@ (T_Bom :> Num(4))
  @@ (T_MuitoBom :> Num(5)) @@ (T_Dashes :> NaN)

\* Variant: the text is looked up as written, blanks included
MappedGrade_Untrimmed(raw_grade) ==
  IF isstr(raw_grade) /\ raw_grade.s \in DOMAIN grade_map
  THEN grade_map[raw_grade.s]
  ELSE IF float(raw_grade).ok THEN float(raw_grade).val ELSE NaN

\* The grade stored for one raw cell: trim a text, look it up in grade_map,
\* otherwise float() it, and store missing when float() raises.
MappedGrade(raw_grade) ==
  LET raw == IF isstr(raw_grade) THEN Str(strip(raw_grade.s)) ELSE raw_grade
  IN IF isstr(raw) /\ raw.s \in DOMAIN grade_map
     THEN grade_map[raw.s]
     ELSE IF float(raw).ok THEN float(raw).val ELSE NaN

\* Variant: the label is kept as written, blanks included
NextSubject_Untrimmed(subject, val) == IF notna(val) THEN str(val) ELSE subject

\* One pass of the body of the column loop: the new current_subject
NextSubject(subject, val) == IF notna(val) THEN strip(str(val)) ELSE subject

\* sub_header == 'CF' and current_subject
Registers(sub_header, subject) ==
  isstr(sub_header) /\ sub_header.s = T_CF /\ Truthy(subject)

\* Variant: a textual identifier that is not all digits stops the scan
\* whether or not the row has a name
StopsAt_IgnoringName(student_id, student_name) ==
  \/ isna(student_id)
  \/ isstr(student_id) /\ ~isdigit(student_id.s)

\* The two stop conditions of the row loop
StopsAt(student_id, student_name) ==
  \/ isna(student_id)
  \/ isstr(student_id) /\ ~isdigit(student_id.s) /\ isna(student_name)

\* The student_dict built for one accepted row
RECURSIVE ExtractGrades(_, _, _)
ExtractGrades(dict, row, mapping) ==
  IF mapping = <<>> THEN dict
  ELSE ExtractGrades(DictSet(dict, mapping[1].key,
                             MappedGrade(Iloc(row, mapping[1].val))),
                     row, Tail(mapping))

StudentDict(row, mapping) ==
  ExtractGrades(<<[key |-> T_ID, val |-> Iloc(row, 0)],
                  [key |-> T_Name, val |-> Iloc(row, 2)]>>, row, mapping)

----------------------------------------------------------------------------
(* Data frames: [index, columns, data], data[i][j] the value of row i in   *)
(* column columns[j].                                                      *)
EmptyFrame == [index |-> <<>>, columns |-> <<>>, data |-> <<>>]

\* pd.DataFrame(list of dicts): one row per dict, the columns are the keys
DataFrame(records) ==
  [index |-> [i \in 1..Len(records) |-> Num(i - 1)],
   columns |-> IF records = <<>> THEN <<>> ELSE DictKeys(records[1]),
   data |-> [i \in 1..Len(records) |->
               [j \in 1..Len(records[i]) |-> records[i][j].val]]]

\* df.empty: no rows or no columns
empty(frame) == Len(frame.index) = 0 \/ Len(frame.columns) = 0

HasColumn(frame, name) == \E j \in 1..Len(frame.columns) : frame.columns[j] = name
ColumnPos(frame, name) == CHOOSE j \in 1..Len(frame.columns) : frame.columns[j] = name
\* df[name]: the values of one column, in row order
Column(frame, name) ==
  [i \in 1..Len(frame.data) |-> frame.data[i][ColumnPos(frame, name)]]

\* df[cols]: the frame restricted to the columns cols, in that order
Select(frame, cols) ==
  [index |-> frame.index,
   columns |-> cols,
   data |-> [i \in 1..Len(frame.data) |->
               [j \in 1..Len(cols) |-> frame.data[i][ColumnPos(frame, cols[j])]]]]

\* df.set_index(name): the column becomes the index
set_index(frame, name) ==
  LET rest == SelectSeq(frame.columns, LAMBDA c : c # name)
  IN [Select(frame, rest) EXCEPT !.index = Column(frame, name)]

\* Step 4 of process_student_grades: the table that is returned
FinalFrame(records) ==
  LET made == DataFrame(records)
      keyed == IF HasColumn(made, T_ID) THEN set_index(made, T_ID) ELSE made
  IN IF ~empty(keyed)
     THEN Select(keyed, <<T_Name>> \o SelectSeq(keyed.columns, LAMBDA c : c # T_Name))
     ELSE keyed

\* Rows of a frame kept by a 1-based set of positions, in order
RECURSIVE KeepRows(_, _, _)
KeepRows(seq, keep, i) ==
  IF i > Len(seq) THEN <<>>
  ELSE (IF i \in keep THEN <<seq[i]>> ELSE <<>>) \o KeepRows(seq, keep, i + 1)

----------------------------------------------------------------------------
(* calculate_class_statistics.                                             *)

\* Values of the statistics mapping
Count(n) == [kind |-> "count", n |-> n, msg |-> "", text |-> <<>>, amp |-> NaN]
Msg(m) == [kind |-> "msg", n |-> 0, msg |-> m, text |-> <<>>, amp |-> NaN]
Joined(names) == [kind |-> "joined", n |-> 0, msg |-> "", text |-> names, amp |-> NaN]
Dispersion(names, a) ==
  [kind |-> "dispersion", n |-> 0, msg |-> "", text |-> names, amp |-> a]

\* ", ".join(names)
RECURSIVE join(_)
join(names) ==
  IF names = <<>> THEN <<>>
  ELSE IF Len(names) = 1 THEN names[1]
  ELSE names[1] \o <<",", " ">> \o join(Tail(names))

\* Variant: the comparison includes the threshold
lt_Inclusive(v, k) == v.t = "num" /\ v.v <= k

\* Comparisons of one grade with a number: a missing grade compares False
lt(v, k) == v.t = "num" /\ v.v < k
eq(v, k) == v.t = "num" /\ v.v = k

subject_cols(frame) == SelectSeq(frame.columns, LAMBDA col : col # T_Name)
grades_df(frame) == Select(frame, subject_cols(frame))

\* grades_df.isna().all(axis=1), as the set of the rows it marks
not_evaluated_mask(frame) ==
  {i \in 1..Len(grades_df(frame).data) :
     \A j \in 1..Len(grades_df(frame).columns) : isna(grades_df(frame).data[i][j])}

\* Variant: the students that are not evaluated are not removed
evaluated_df_Unfiltered(frame) == grades_df(frame)

\* grades_df[~not_evaluated_mask]
evaluated_df(frame) ==
  LET g == grades_df(frame)
      keep == (1..Len(g.data)) \ not_evaluated_mask(frame)
  IN [index |-> KeepRows(g.index, keep, 1), columns |-> g.columns,
      data |-> KeepRows(g.data, keep, 1)]

\* (evaluated_df < 3).sum(axis=1): per student, the number of grades below 3
negatives_per_student(frame) ==
  LET e == evaluated_df(frame)
  IN [i \in 1..Len(e.data) |->
        Cardinality({j \in 1..Len(e.columns) : lt(e.data[i][j], 3)})]
\* (evaluated_df == 5).sum(axis=1)
mb_per_student(frame) ==
  LET e == evaluated_df(frame)
  IN [i \in 1..Len(e.data) |->
        Cardinality({j \in 1..Len(e.columns) : eq(e.data[i][j], 5)})]
\* (evaluated_df == 2).sum(): per subject, the number of grades equal to 2
insuficiente_counts(frame) ==
  LET e == evaluated_df(frame)
  IN [j \in 1..Len(e.columns) |->
        Cardinality({i \in 1..Len(e.data) : eq(e.data[i][j], 2)})]

\* (series == 0).sum(), (series >= k).sum()
NumZero(series) == Cardinality({i \in 1..Len(series) : series[i] = 0})
NumAtLeast(series, k) == Cardinality({i \in 1..Len(series) : series[i] >= k})

\* Variant: an absent column counts as no student instead of a placeholder
num_port_mat_negative_ZeroWhenAbsent(frame) ==
  LET e == evaluated_df(frame)
  IN IF HasColumn(e, T_PORT) /\ HasColumn(e, T_Mat)
     THEN Count(Cardinality({i \in 1..Len(e.data) :
                 lt(Column(e, T_PORT)[i], 3) /\ lt(Column(e, T_Mat)[i], 3)}))
     ELSE Count(0)

\* The Portuguese-and-Math metric
num_port_mat_negative(frame) ==
  LET e == evaluated_df(frame)
  IN IF HasColumn(e, T_PORT) /\ HasColumn(e, T_Mat)
     THEN Count(Cardinality({i \in 1..Len(e.data) :
                 lt(Column(e, T_PORT)[i], 3) /\ lt(Column(e, T_Mat)[i], 3)}))
     ELSE Msg("N/A (Colunas nao encontradas)")

\* Variant: sort_values() with its default, ascending order
SortedDescending_Ascending(counts) ==
  {p \in [1..Len(counts) -> 1..Len(counts)] :
     /\ \A i, j \in 1..Len(counts) : i # j => p[i] # p[j]
     /\ \A i \in 1..Len(counts) - 1 : counts[p[i]] <= counts[p[i + 1]]}

\* sort_values(ascending=False) with the default, unstable sort: every order
\* of the positions with non-increasing counts is a possible result
SortedDescending(counts) ==
  {p \in [1..Len(counts) -> 1..Len(counts)] :
     /\ \A i, j \in 1..Len(counts) : i # j => p[i] # p[j]
     /\ \A i \in 1..Len(counts) - 1 : counts[p[i]] >= counts[p[i + 1]]}

\* .head(k) of a sequence
head(seq, k) == SubSeq(seq, 1, IF Len(seq) < k THEN Len(seq) ELSE k)

\* insuficiente_counts.head(3).index.tolist() for one sort result
top_3_insuficiente(frame, order) ==
  head([i \in 1..Len(order) |-> evaluated_df(frame).columns[order[i]]], 3)

\* evaluated_df.max() - evaluated_df.min(): per column, over the grades that
\* are not missing; missing when the column has none
amplitude(frame) ==
  LET e == evaluated_df(frame)
      vals(j) == {e.data[i][j].v : i \in {r \in 1..Len(e.data) : notna(e.data[r][j])}}
  IN [j \in 1..Len(e.columns) |->
        IF vals(j) = {} THEN NaN ELSE Num(SetMax(vals(j)) - SetMin(vals(j)))]

\* amplitude.max(): over the amplitudes that are not missing
max_amp_value(frame) ==
  LET a == amplitude(frame)
      vals == {a[j].v : j \in {c \in 1..Len(a) : notna(a[c])}}
  IN IF vals = {} THEN NaN ELSE Num(SetMax(vals))

\* Variant: only the first subject that reaches the maximum is reported
max_dispersion_subjects_FirstOnly(frame) ==
  LET e == evaluated_df(frame)
      a == amplitude(frame)
      m == max_amp_value(frame)
      hit == {j \in 1..Len(a) : notna(a[j]) /\ notna(m) /\ a[j].v = m.v}
  IN head(KeepRows(e.columns, hit, 1), 1)

\* amplitude[amplitude == max_amp_value].index.tolist()
max_dispersion_subjects(frame) ==
  LET e == evaluated_df(frame)
      a == amplitude(frame)
      m == max_amp_value(frame)
      hit == {j \in 1..Len(a) : notna(a[j]) /\ notna(m) /\ a[j].v = m.v}
  IN KeepRows(e.columns, hit, 1)

dispersion_str(frame) ==
  IF amplitude(frame) # <<>>
  THEN Dispersion(join(max_dispersion_subjects(frame)), max_amp_value(frame))
  ELSE Msg("N/A")

\* The mapping returned for a table that is not empty, for one sort result
Statistics(frame, order) ==
  <<[key |-> "total_students", val |-> Count(Len(frame.index))],
    [key |-> "num_not_evaluated", val |-> Count(Cardinality(not_evaluated_mask(frame)))],
    [key |-> "num_no_negatives",
     val |-> Count(NumZero(negatives_per_student(frame)))],
    [key |-> "num_3_plus_negatives",
     val |-> Count(NumAtLeast(negatives_per_student(frame), 3))],
    [key |-> "num_any_negative",
     val |-> Count(NumAtLeast(negatives_per_student(frame), 1))],
    [key |-> "num_port_mat_negative", val |-> num_port_mat_negative(frame)],
    [key |-> "num_3_plus_mb",
     val |-> Count(NumAtLeast(mb_per_student(frame), 3))],
    [key |-> "num_any_mb",
     val |-> Count(NumAtLeast(mb_per_student(frame), 1))],
    [key |-> "top_3_insuficiente", val |-> Joined(join(top_3_insuficiente(frame, order)))],
    [key |-> "dispersion_str", val |-> dispersion_str(frame)]>>

\* The mapping returned for an empty table
NoData == <<[key |-> "Erro", val |-> Msg("Nao foram encontrados dados de alunos.")]>>

----------------------------------------------------------------------------
(* The uploaded grids.                                                     *)
Blank(w) == [j \in 1..w |-> NaN]
Filler(n, w) == [i \in 1..n |-> Blank(w)]
\* A grid whose rows 11 and 12 are the two header rows, followed by rows
Grid(subject_row, cf_row, rows) ==
  Filler(SUBJECT_ROW_IDX, Len(subject_row)) \o <<subject_row, cf_row>> \o rows

\* Grids with fewer than 13 rows: the empty sheet, and the grids where row
\* 12, or rows 11 and 12, are missing
ShortGrids == {Filler(n, 3) : n \in {0, SUBJECT_ROW_IDX, CF_ROW_IDX}}

\* Grids that vary the identifier and the name of up to MaxDataRows rows;
\* the grids of width 2 have no name column
IdCells == {NaN, Num(1), Str(<<"1", "2">>), Str(T_Media)}
NameCells == {NaN, Str(T_Ana)}
RowGrids ==
  {Grid(SubSeq(<<NaN, NaN, NaN, Str(T_Mat)>>, 1, w),
        SubSeq(<<NaN, NaN, NaN, Str(T_CF)>>, 1, w),
        [i \in 1..n |-> SubSeq(<<ids[i], NaN, names[i], Str(T_Bom)>>, 1, w)]) :
     <<w, n, ids, names>> \in
       UNION {{<<w, n, ids, names>> : ids \in [1..n -> IdCells],
                                      names \in [1..n -> NameCells]} :
                <<w, n>> \in {2, 4} \X (0..MaxDataRows)}}

\* Grids that vary the two header rows over every column, with one data row
SubjectCells == {NaN, Str(<<" ">> \o T_Mat), Str(T_PORT \o <<" ">>), Str(<<" ", " ">>)}
FlagCells == {NaN, Str(T_CF)}
HeaderGrids ==
  {Grid(subject_row, cf_row,
        <<[j \in 1..Len(subject_row) |->
             IF j = 1 THEN Num(1) ELSE IF j = 3 THEN Str(T_Ana) ELSE Str(T_Bom)]>>) :
     <<subject_row, cf_row>> \in
       UNION {[1..w -> SubjectCells] \X [1..w -> FlagCells] : w \in 1..MaxHdrCols}}

\* Grids that vary the grade cell of one student in one subject
GradeCells ==
  {NaN, Num(0), Num(2), Num(5)} \cup
  {Str(s) : s \in {T_Insuficiente, T_Suficiente, T_Bom, T_MuitoBom, T_Dashes,
                   <<" ">> \o T_Bom \o <<" ">>, T_MuitoBom \o <<" ">>,
                   <<" ", " ">> \o T_Dashes, <<"M", "u", "i", "t", "o", "B", "o", "m">>,
                   <<"b", "o", "m">>, <<"4">>, <<" ", "1", "7", " ">>, <<"-", "1">>,
                   <<"3", ",", "5">>, <<"-">>, <<>>, <<" ">>}}
GradeGrids ==
  {Grid(<<NaN, NaN, NaN, Str(T_Mat)>>, <<NaN, NaN, NaN, Str(T_CF)>>,
        <<<<Num(1), NaN, Str(T_Ana), g>>>>) : g \in GradeCells}

\* Grids of m students and n subjects, each subject in one flagged column;
\* the subjects are the first n of one of the name lists
SubjectLists == {<<T_PORT, T_Mat, T_Ing, T_EF>>, <<T_Ing, T_Mat, T_EF, T_Hist>>}
StatCells == {Str(T_Dashes), Str(T_Insuficiente), Str(T_Suficiente), Str(T_MuitoBom)}
StatGrid(names, cells) ==
  Grid(<<NaN, NaN, NaN>> \o [j \in 1..Len(names) |-> Str(names[j])],
       <<NaN, NaN, NaN>> \o [j \in 1..Len(names) |-> Str(T_CF)],
       [i \in 1..Len(cells) |-> <<Num(i), NaN, Str(T_Ana)>> \o cells[i]])
StatGrids ==
  {StatGrid(SubSeq(names, 1, n), cells) :
     <<n, names, cells>> \in
       UNION {{<<n, names, cells>> : names \in SubjectLists,
                                     cells \in [1..m -> [1..n -> StatCells]]} :
                <<n, m>> \in {nm \in (0..4) \X (1..MaxStudents) :
                               nm[1] * nm[2] <= MaxGradeCells}}}

\* Three students and two subjects, the first with the grades 2, 5, 3
DispersionGrids ==
  {StatGrid(<<T_PORT, T_Mat>>,
            <<<<Str(T_Insuficiente), c[1]>>, <<Str(T_MuitoBom), c[2]>>,
              <<Str(T_Suficiente), c[3]>>>>) : c \in [1..3 -> StatCells]}

\* Two students and four subjects, graded Insuficiente or Suficiente
RankGrids ==
  {StatGrid(<<T_PORT, T_Mat, T_Ing, T_EF>>, cells) :
     cells \in [1..2 -> [1..4 -> {Str(T_Insuficiente), Str(T_Suficiente)}]]}

\* The grid of the worked example: PORT. flagged at column 3, Mat at column
\* 5, one student (1, Ana) with Suficiente and Insuficiente
ScenarioGrid ==
  Grid(<<NaN, NaN, NaN, Str(T_PORT), NaN, Str(T_Mat)>>,
       <<NaN, NaN, NaN, Str(T_CF), NaN, Str(T_CF)>>,
       <<<<Num(1), NaN, Str(T_Ana), Str(T_Suficiente), NaN, Str(T_Insuficiente)>>>>)

Grids == ShortGrids \cup RowGrids \cup HeaderGrids \cup GradeGrids \cup StatGrids
         \cup DispersionGrids \cup RankGrids \cup {ScenarioGrid}

----------------------------------------------------------------------------
(* The upload handler.                                                     *)
Shown(kind, key, n) == [kind |-> kind, key |-> key, n |-> n]

Init ==
  /\ df \in Grids
  /\ pc = "upload"
  /\ col_idx = 0
  /\ current_subject = None
  /\ col_mapping = <<>>
  /\ row_idx = 0
  /\ students_data = <<>>
  /\ result_df = EmptyFrame
  /\ stats = <<>>
  /\ shown = <<>>
  /\ raised = ""

\* df.iloc[SUBJECT_ROW_IDX] and df.iloc[CF_ROW_IDX] both exist
ReadHeaderRows ==
  /\ pc = "upload"
  /\ Len(df) > SUBJECT_ROW_IDX /\ Len(df) > CF_ROW_IDX
  /\ pc' = IF NCols(df) > 0 THEN "columns" ELSE "rows"
  /\ row_idx' = IF NCols(df) > 0 THEN row_idx ELSE DATA_START_IDX
  /\ UNCHANGED <<df, col_idx, current_subject, col_mapping, students_data,
                 result_df, stats, shown, raised>>

\* One of the two header rows cannot be indexed
HeaderRowsRaise ==
  /\ pc = "upload"
  /\ ~(Len(df) > SUBJECT_ROW_IDX /\ Len(df) > CF_ROW_IDX)
  /\ raised' = "IndexError"
  /\ pc' = "except"
  /\ UNCHANGED <<df, col_idx, current_subject, col_mapping, row_idx,
                 students_data, result_df, stats, shown>>

\* One pass of the column loop
MapColumn ==
  /\ pc = "columns"
  /\ LET val == Iloc(Iloc(df, SUBJECT_ROW_IDX), col_idx)
         sub_header == Iloc(Iloc(df, CF_ROW_IDX), col_idx)
         subject == NextSubject(current_subject, val)
     IN /\ current_subject' = subject
        /\ col_mapping' = IF Registers(sub_header, subject)
                          THEN DictSet(col_mapping, subject, col_idx)
                          ELSE col_mapping
  /\ col_idx' = col_idx + 1
  /\ pc' = IF col_idx + 1 < NCols(df) THEN "columns" ELSE "rows"
  /\ row_idx' = IF col_idx + 1 < NCols(df) THEN row_idx ELSE DATA_START_IDX
  /\ UNCHANGED <<df, students_data, result_df, stats, shown, raised>>

\* row.iloc[2] of a row with fewer than three cells
RowRaise ==
  /\ pc = "rows"
  /\ row_idx < Len(df)
  /\ NCols(df) < 3
  /\ raised' = "IndexError"
  /\ pc' = "except"
  /\ UNCHANGED <<df, col_idx, current_subject, col_mapping, row_idx,
                 students_data, result_df, stats, shown>>

\* A row that passes both stop conditions is appended
AcceptRow ==
  /\ pc = "rows"
  /\ row_idx < Len(df)
  /\ NCols(df) >= 3
  /\ ~StopsAt(Iloc(Iloc(df, row_idx), 0), Iloc(Iloc(df, row_idx), 2))
  /\ students_data' = Append(students_data, StudentDict(Iloc(df, row_idx), col_mapping))
  /\ row_idx' = row_idx + 1
  /\ UNCHANGED <<df, pc, col_idx, current_subject, col_mapping, result_df,
                 stats, shown, raised>>

\* break
StopRow ==
  /\ pc = "rows"
  /\ row_idx < Len(df)
  /\ NCols(df) >= 3
  /\ StopsAt(Iloc(Iloc(df, row_idx), 0), Iloc(Iloc(df, row_idx), 2))
  /\ pc' = "assemble"
  /\ UNCHANGED <<df, col_idx, current_subject, col_mapping, row_idx,
                 students_data, result_df, stats, shown, raised>>

\* The rows are exhausted
EndOfRows ==
  /\ pc = "rows"
  /\ row_idx >= Len(df)
  /\ pc' = "assemble"
  /\ UNCHANGED <<df, col_idx, current_subject, col_mapping, row_idx,
                 students_data, result_df, stats, shown, raised>>

\* process_student_grades returns the table
Assemble ==
  /\ pc = "assemble"
  /\ result_df' = FinalFrame(students_data)
  /\ pc' = "statistics"
  /\ UNCHANGED <<df, col_idx, current_subject, col_mapping, row_idx,
                 students_data, stats, shown, raised>>

\* calculate_class_statistics on an empty table
CalculateNoData ==
  /\ pc = "statistics"
  /\ empty(result_df)
  /\ stats' = NoData
  /\ pc' = "display"
  /\ UNCHANGED <<df, col_idx, current_subject, col_mapping, row_idx,
                 students_data, result_df, shown, raised>>

\* calculate_class_statistics on a table that is not empty
CalculateStatistics ==
  /\ pc = "statistics"
  /\ ~empty(result_df)
  /\ \E order \in SortedDescending(insuficiente_counts(result_df)) :
       stats' = Statistics(result_df, order)
  /\ pc' = "display"
  /\ UNCHANGED <<df, col_idx, current_subject, col_mapping, row_idx,
                 students_data, result_df, shown, raised>>

\* The success banner, one entry per statistic, the table
DisplayResults ==
  /\ pc = "display"
  /\ shown' = <<Shown("success", "",
                      IF DictHas(stats, "total_students")
                      THEN DictGet(stats, "total_students").n ELSE 0)>>
              \o [i \in 1..Len(stats) |-> Shown("stat", stats[i].key, 0)]
              \o <<Shown("table", "", Len(result_df.index))>>
  /\ pc' = "done"
  /\ UNCHANGED <<df, col_idx, current_subject, col_mapping, row_idx,
                 students_data, result_df, stats, raised>>

\* Variant: the handler shows the error message without the static hint
DisplayError_WithoutHint ==
  /\ pc = "except"
  /\ shown' = <<Shown("error", raised, 0)>>
  /\ pc' = "done"
  /\ UNCHANGED <<df, col_idx, current_subject, col_mapping, row_idx,
                 students_data, result_df, stats, raised>>

\* except Exception: the error message and the static hint
DisplayError ==
  /\ pc = "except"
  /\ shown' = <<Shown("error", raised, 0), Shown("warning", "", 0)>>
  /\ pc' = "done"
  /\ UNCHANGED <<df, col_idx, current_subject, col_mapping, row_idx,
                 students_data, result_df, stats, raised>>

Next ==
  \/ ReadHeaderRows
  \/ HeaderRowsRaise
  \/ MapColumn
  \/ RowRaise
  \/ AcceptRow
  \/ StopRow
  \/ EndOfRows
  \/ Assemble
  \/ CalculateNoData
  \/ CalculateStatistics
  \/ DisplayResults
  \/ DisplayError

Spec == Init /\ [][Next]_vars

----------------------------------------------------------------------------
(* Properties.                                                             *)

\* process_student_grades has returned its table
Returned == pc \in {"statistics", "display", "done"} /\ raised = ""
\* calculate_class_statistics has returned its mapping
Computed == pc \in {"display", "done"} /\ raised = ""

\* A row ends the data: its identifier is empty, or is a text that is not
\* made of digits only while its name is empty
EndsData(row) ==
  \/ row[1].t = "nan"
  \/ /\ row[1].t = "str"
     /\ (row[1].s = <<>> \/ \E i \in 1..Len(row[1].s) : row[1].s[i] \notin Digits)
     /\ row[3].t = "nan"

\* k: the index of the first row at or after DATA_START_IDX that ends the
\* data, the number of rows when there is none
FirstEnd(grid) ==
  LET ends == {i \in DATA_START_IDX..(Len(grid) - 1) : EndsData(grid[i + 1])}
  IN IF ends = {} THEN Len(grid) ELSE SetMin(ends)

\* C1: the returned table holds exactly the grid rows 13 .. k-1, one record
\* per row and in grid order (identifier and name of each row), where k is the
\* first row that ends the data; no row at or after k contributes.
C1_RowsUpToFirstEnd ==
  Returned =>
    LET k == FirstEnd(df)
    IN /\ Len(result_df.index) = k - DATA_START_IDX
       /\ Len(result_df.data) = k - DATA_START_IDX
       /\ \A i \in DATA_START_IDX..(k - 1) :
            /\ result_df.index[i - DATA_START_IDX + 1] = df[i + 1][1]
            /\ result_df.data[i - DATA_START_IDX + 1][1] = df[i + 1][3]

\* C1 witness: a run that accepted a row with a textual non-digit identifier
\* and a name, stopped at row k, and left a valid-looking row below k unread
C1_Witness ==
  /\ pc = "done" /\ raised = ""
  /\ LET k == FirstEnd(df)
     IN /\ k > DATA_START_IDX
        /\ Len(result_df.index) = k - DATA_START_IDX
        /\ \E i \in DATA_START_IDX..(k - 1) :
             df[i + 1][1].t = "str" /\ ~isdigit(df[i + 1][1].s)
        /\ \E j \in (k + 1)..(Len(df) - 1) : ~EndsData(df[j + 1])

\* s is raw without its leading and trailing blanks
IsTrimOf(s, raw) ==
  /\ s = <<>> \/ (s[1] # " " /\ s[Len(s)] # " ")
  /\ \E a \in 0..Len(raw) :
       /\ a + Len(s) <= Len(raw)
       /\ \A i \in 1..Len(raw) :
            IF i > a /\ i <= a + Len(s) THEN raw[i] = s[i - a] ELSE raw[i] = " "

\* The column loop has run over every column
MappingDone == Len(df) > CF_ROW_IDX /\ pc \notin {"upload", "columns"}

\* The columns at or before c (0-based) whose row-11 cell is not empty
LabelsUpTo(c) == {j \in 0..c : df[SUBJECT_ROW_IDX + 1][j + 1].t # "nan"}
\* Column c is flagged "CF" and the nearest label at or before it trims to s
FlaggedUnder(c, s) ==
  /\ df[CF_ROW_IDX + 1][c + 1] = Str(T_CF)
  /\ LabelsUpTo(c) # {}
  /\ IsTrimOf(s, df[SUBJECT_ROW_IDX + 1][SetMax(LabelsUpTo(c)) + 1].s)

\* C2: after the column pass every entry col_mapping[s] = c has row 12 equal
\* to "CF" at column c and s the trimmed nearest non-empty row-11 cell at or
\* before c; a CF column with no label at or before it registers nothing; of
\* several CF columns under one subject the entry holds the last.
C2_ColumnMapEntries ==
  MappingDone =>
    /\ \A e \in 1..Len(col_mapping) :
         /\ col_mapping[e].val \in 0..(NCols(df) - 1)
         /\ FlaggedUnder(col_mapping[e].val, col_mapping[e].key)
         /\ \A c \in (col_mapping[e].val + 1)..(NCols(df) - 1) :
              ~FlaggedUnder(c, col_mapping[e].key)
         /\ \A f \in 1..Len(col_mapping) :
              col_mapping[f].key = col_mapping[e].key => f = e
    /\ \A c \in 0..(NCols(df) - 1) :
         (df[CF_ROW_IDX + 1][c + 1] = Str(T_CF) /\ LabelsUpTo(c) = {})
           => \A e \in 1..Len(col_mapping) : col_mapping[e].val # c

\* C2 witness: a finished pass over a header with a CF column before any
\* label and a subject, written with blanks, that has two CF columns
C2_Witness ==
  /\ MappingDone
  /\ df[CF_ROW_IDX + 1][1] = Str(T_CF) /\ LabelsUpTo(0) = {}
  /\ \E e \in 1..Len(col_mapping) :
       /\ \E c \in 0..(col_mapping[e].val - 1) : FlaggedUnder(c, col_mapping[e].key)
       /\ df[SUBJECT_ROW_IDX + 1][SetMax(LabelsUpTo(col_mapping[e].val)) + 1].s
            # col_mapping[e].key

\* The text without its leading blanks, then without its trailing blanks
WithoutLeading(raw) ==
  CHOOSE s \in {SubSeq(raw, a, Len(raw)) : a \in 1..(Len(raw) + 1)} :
    /\ s = <<>> \/ s[1] # " "
    /\ \A i \in 1..(Len(raw) - Len(s)) : raw[i] = " "
WithoutTrailing(raw) ==
  CHOOSE s \in {SubSeq(raw, 1, b) : b \in 0..Len(raw)} :
    /\ s = <<>> \/ s[Len(s)] # " "
    /\ \A i \in (Len(s) + 1)..Len(raw) : raw[i] = " "
Trimmed(raw) == WithoutTrailing(WithoutLeading(raw))

RECURSIVE Pow10(_)
Pow10(k) == IF k = 0 THEN 1 ELSE 10 * Pow10(k - 1)
RECURSIVE PlaceSum(_, _)
PlaceSum(digits, i) ==
  IF i > Len(digits) THEN 0
  ELSE DigitVal(digits[i]) * Pow10(Len(digits) - i) + PlaceSum(digits, i + 1)

\* The text is a numeral: an optional sign and one or more digits
Unsigned(t) == IF t # <<>> /\ t[1] \in {"+", "-"} THEN Tail(t) ELSE t
IsNumeral(t) == Unsigned(t) # <<>> /\ \A i \in 1..Len(Unsigned(t)) : Unsigned(t)[i] \in Digits
NumeralValue(t) ==
  IF t[1] = "-" THEN 0 - PlaceSum(Unsigned(t), 1) ELSE PlaceSum(Unsigned(t), 1)

\* What the claim says is stored for a raw cell
GradeOf(raw, stored) ==
  IF raw.t = "nan" THEN stored.t = "nan"
  ELSE IF raw.t = "num" THEN stored.t = "num" /\ stored.v = raw.v
  ELSE LET t == Trimmed(raw.s)
       IN IF t = T_Insuficiente THEN stored.t = "num" /\ stored.v = 2
          ELSE IF t = T_Suficiente THEN stored.t = "num" /\ stored.v = 3
          ELSE IF t = T_Bom THEN stored.t = "num" /\ stored.v = 4
          ELSE IF t = T_MuitoBom THEN stored.t = "num" /\ stored.v = 5
          ELSE IF t = T_Dashes THEN stored.t = "nan"
          ELSE IF IsNumeral(t) THEN stored.t = "num" /\ stored.v = NumeralValue(t)
          ELSE stored.t = "nan"

\* The value the table holds for record r (1-based) under column name
TableValue(r, name) ==
  result_df.data[r][CHOOSE j \in 1..Len(result_df.columns) : result_df.columns[j] = name]

\* C3: for every accepted row and every (subject, column) of the column map
\* the stored grade depends on that cell only: the four labels give 2, 3, 4,
\* 5 and "--" gives missing after trimming, any other value that reads as a
\* number is that number, any other value is missing; and no cell value makes
\* the extraction fail (it fails only on a grid without the header rows or
\* without a name column).
C3_GradeNormalisation ==
  /\ Returned =>
       \A r \in 1..Len(result_df.data) : \A e \in 1..Len(col_mapping) :
         GradeOf(df[DATA_START_IDX + r][col_mapping[e].val + 1],
                 TableValue(r, col_mapping[e].key))
  /\ raised # "" => (Len(df) <= CF_ROW_IDX \/ NCols(df) < 3)

\* C3 witness: a finished extraction that stored missing for a text that is
\* neither a label nor a numeral
C3_Witness ==
  /\ pc = "done" /\ raised = ""
  /\ \E r \in 1..Len(result_df.data) : \E e \in 1..Len(col_mapping) :
       LET raw == df[DATA_START_IDX + r][col_mapping[e].val + 1]
       IN /\ raw.t = "str"
          /\ Trimmed(raw.s) \notin {T_Insuficiente, T_Suficiente, T_Bom, T_MuitoBom, T_Dashes}
          /\ Trimmed(raw.s) # <<>>
          /\ ~IsNumeral(Trimmed(raw.s))
          /\ TableValue(r, col_mapping[e].key).t = "nan"

\* The grid has the two header rows and no row that can be accepted: there
\* is no row 13, or row 13 has an empty identifier, or a textual identifier
\* that is not all digits and no name
NoAcceptedRows(grid) ==
  /\ Len(grid) > CF_ROW_IDX
  /\ \/ Len(grid) = DATA_START_IDX
     \/ LET row == grid[DATA_START_IDX + 1]
        IN \/ row[1].t = "nan"
           \/ /\ row[1].t = "str"
              /\ (row[1].s = <<>> \/ \E i \in 1..Len(row[1].s) : row[1].s[i] \notin Digits)
              /\ (Len(row) < 3 \/ row[3].t = "nan")

\* C4: a grid with the header rows and no accepted data row ends with an
\* empty table and a statistics mapping of exactly one entry, the no-data
\* indicator, and no error.
C4_NoDataRows ==
  (NoAcceptedRows(df) /\ pc = "done") =>
    /\ raised = ""
    /\ empty(result_df)
    /\ Len(stats) = 1 /\ stats[1].key = "Erro"

\* C5 as stated: in the worked example the extracted grades are Mat 2 and
\* PORT. 3, the student's negatives_per_student is 2, any_negative is 1 and
\* portuguese_and_math_negative is 0.
C5_ScenarioAsStated ==
  (df = ScenarioGrid /\ pc = "done") =>
    /\ result_df.columns = <<T_Name, T_PORT, T_Mat>>
    /\ result_df.data = <<<<Str(T_Ana), Num(3), Num(2)>>>>
    /\ negatives_per_student(result_df) = <<2>>
    /\ DictGet(stats, "num_any_negative") = Count(1)
    /\ DictGet(stats, "num_port_mat_negative") = Count(0)

\* C5, amended: the same with negatives_per_student equal to 1 (only Mat is
\* below 3).
C5_Scenario ==
  (df = ScenarioGrid /\ pc = "done") =>
    /\ raised = ""
    /\ result_df.index = <<Num(1)>>
    /\ result_df.columns = <<T_Name, T_PORT, T_Mat>>
    /\ result_df.data = <<<<Str(T_Ana), Num(3), Num(2)>>>>
    /\ negatives_per_student(result_df) = <<1>>
    /\ DictGet(stats, "num_any_negative") = Count(1)
    /\ DictGet(stats, "num_port_mat_negative") = Count(0)

\* C5 witness: the worked example has been processed and displayed
C5_Witness ==
  /\ df = ScenarioGrid /\ pc = "done"
  /\ Len(stats) = 10
  /\ shown[1].kind = "success"

\* C7: an exception raised inside either function is caught once: the error
\* message and the hint are displayed and nothing else, no table and no
\* statistics exist; a grid with fewer than 13 rows raises; the success
\* banner, the statistics and the table are displayed only when both
\* functions have returned without raising.
C7_ErrorBoundary ==
  /\ (raised # "" /\ pc = "done") =>
       shown = <<Shown("error", raised, 0), Shown("warning", "", 0)>>
  /\ raised # "" => (stats = <<>> /\ result_df = EmptyFrame)
  /\ (Len(df) <= CF_ROW_IDX /\ pc # "upload") => raised = "IndexError"
  /\ Cardinality({i \in 1..Len(shown) : shown[i].kind = "error"}) <= 1
  /\ (\E i \in 1..Len(shown) : shown[i].kind \in {"success", "stat", "table"}) =>
       /\ raised = "" /\ pc = "done"
       /\ Len(stats) >= 1
       /\ result_df = FinalFrame(students_data)
       /\ \A i \in 1..Len(shown) : shown[i].kind \notin {"error", "warning"}
  /\ pc = "done" => shown # <<>>

\* C7 witness: a grid with fewer than 13 rows ended with the error message
\* and the hint
C7_Witness ==
  /\ pc = "done"
  /\ Len(df) <= CF_ROW_IDX
  /\ raised = "IndexError"
  /\ Len(shown) = 2 /\ shown[1].kind = "error" /\ shown[2].kind = "warning"

----------------------------------------------------------------------------
(* The statistics, stated on the returned table.                           *)

\* The positions of the subject columns of the table, and its rows
SubjectPositions == {j \in 1..Len(result_df.columns) : result_df.columns[j] # T_Name}
Students == 1..Len(result_df.data)
Grade(i, j) == result_df.data[i][j]
\* A student is evaluated when some subject grade is not missing
IsEvaluated(i) == \E j \in SubjectPositions : Grade(i, j).t = "num"
IsNegative(i, j) == Grade(i, j).t = "num" /\ Grade(i, j).v < 3
IsMuitoBom(i, j) == Grade(i, j).t = "num" /\ Grade(i, j).v = 5
\* The value of one statistic
Stat(key) == stats[CHOOSE i \in 1..Len(stats) : stats[i].key = key].val
\* calculate_class_statistics has returned the metrics of a table with rows
HasMetrics == Computed /\ Len(result_df.index) > 0

\* The names of a set of column positions, in column order
RECURSIVE NamesInOrder(_)
NamesInOrder(positions) ==
  IF positions = {} THEN <<>>
  ELSE LET first == CHOOSE j \in positions : \A k \in positions : j <= k
       IN <<result_df.columns[first]>> \o NamesInOrder(positions \ {first})

\* The grades of subject j that are not missing
GradesOf(j) == {Grade(i, j).v : i \in {r \in Students : Grade(r, j).t = "num"}}
\* The amplitude of a subject that has some grade: highest minus lowest
AmplitudeOf(j) ==
  CHOOSE a \in {hi - lo : hi, lo \in GradesOf(j)} : \E hi, lo \in GradesOf(j) :
    a = hi - lo /\ \A v \in GradesOf(j) : lo <= v /\ v <= hi
Amplitudes == {AmplitudeOf(j) : j \in {c \in SubjectPositions : GradesOf(c) # {}}}
\* The number of students whose grade in subject j is exactly 2
InsuficienteCount(j) ==
  Cardinality({i \in Students : Grade(i, j).t = "num" /\ Grade(i, j).v = 2})

\* The eight counting metrics other than the Portuguese-and-Math one are the
\* counts their definitions give on the table
CountsAsDefined ==
  /\ Stat("total_students") = Count(Cardinality(Students))
  /\ Stat("num_not_evaluated") = Count(Cardinality({i \in Students : ~IsEvaluated(i)}))
  /\ Stat("num_no_negatives") =
       Count(Cardinality({i \in Students :
               IsEvaluated(i) /\ \A j \in SubjectPositions : ~IsNegative(i, j)}))
  /\ Stat("num_3_plus_negatives") =
       Count(Cardinality({i \in Students :
               Cardinality({j \in SubjectPositions : IsNegative(i, j)}) >= 3}))
  /\ Stat("num_any_negative") =
       Count(Cardinality({i \in Students : \E j \in SubjectPositions : IsNegative(i, j)}))
  /\ Stat("num_3_plus_mb") =
       Count(Cardinality({i \in Students :
               Cardinality({j \in SubjectPositions : IsMuitoBom(i, j)}) >= 3}))
  /\ Stat("num_any_mb") =
       Count(Cardinality({i \in Students : \E j \in SubjectPositions : IsMuitoBom(i, j)}))

\* The top-3 entry lists min(3, n) distinct subjects by non-increasing count
\* of grades equal to 2, and no unlisted subject has a greater count than a
\* listed one
Top3AsDefined ==
  LET n == Cardinality(SubjectPositions)
      k == IF n < 3 THEN n ELSE 3
  IN /\ Stat("top_3_insuficiente").kind = "joined"
     /\ \E listed \in [1..k -> SubjectPositions] :
          /\ \A a, b \in 1..k : a # b => listed[a] # listed[b]
          /\ \A a \in 1..(k - 1) :
               InsuficienteCount(listed[a]) >= InsuficienteCount(listed[a + 1])
          /\ \A u \in SubjectPositions \ {listed[a] : a \in 1..k} :
               \A a \in 1..k : InsuficienteCount(u) <= InsuficienteCount(listed[a])
          /\ Stat("top_3_insuficiente").text =
               join([a \in 1..k |-> result_df.columns[listed[a]]])

\* The dispersion entry is "N/A" exactly when there is no subject column;
\* otherwise it names, in column order, the subjects whose amplitude is the
\* maximum amplitude, followed by that amplitude (no subject is named and the
\* amplitude is missing when no subject has a grade)
DispersionAsDefined ==
  /\ Stat("dispersion_str") = Msg("N/A") <=> SubjectPositions = {}
  /\ SubjectPositions # {} =>
       /\ Stat("dispersion_str").kind = "dispersion"
       /\ Stat("dispersion_str").text =
            join(NamesInOrder({j \in SubjectPositions :
                   GradesOf(j) # {} /\ \A a \in Amplitudes : a <= AmplitudeOf(j)}))
       /\ Stat("dispersion_str").amp =
            IF Amplitudes = {} THEN NaN
            ELSE Num(CHOOSE a \in Amplitudes : \A b \in Amplitudes : b <= a)

StatKeys ==
  <<"total_students", "num_not_evaluated", "num_no_negatives", "num_3_plus_negatives",
    "num_any_negative", "num_port_mat_negative", "num_3_plus_mb", "num_any_mb",
    "top_3_insuficiente", "dispersion_str">>

\* C6: with both a "PORT." and a "Mat" column the Portuguese-and-Math metric
\* is the number of evaluated students below 3 in both (a missing grade does
\* not count); with either column absent it is a placeholder text, and the
\* other nine metrics are still emitted with the values of their definitions.
C6_PortugueseAndMath ==
  HasMetrics =>
    /\ DictKeys(stats) = StatKeys
    /\ IF /\ \E j \in SubjectPositions : result_df.columns[j] = T_PORT
          /\ \E j \in SubjectPositions : result_df.columns[j] = T_Mat
       THEN LET p == CHOOSE j \in SubjectPositions : result_df.columns[j] = T_PORT
                m == CHOOSE j \in SubjectPositions : result_df.columns[j] = T_Mat
            IN Stat("num_port_mat_negative") =
                 Count(Cardinality({i \in Students :
                         IsEvaluated(i) /\ IsNegative(i, p) /\ IsNegative(i, m)}))
       ELSE /\ Stat("num_port_mat_negative").kind = "msg"
            /\ Stat("num_port_mat_negative").msg # ""
    /\ CountsAsDefined
    /\ Top3AsDefined
    /\ DispersionAsDefined

\* C6 witness: a table with a "Mat" column and no "PORT." column got the
\* placeholder, while a student with a negative in Mat was counted
C6_Witness ==
  /\ pc = "done" /\ HasMetrics
  /\ \E j \in SubjectPositions : result_df.columns[j] = T_Mat
  /\ \A j \in SubjectPositions : result_df.columns[j] # T_PORT
  /\ Stat("num_port_mat_negative").kind = "msg"
  /\ Stat("num_any_negative").n >= 1

\* C8: the max-dispersion entry names exactly the subjects whose amplitude
\* (highest minus lowest grade, ignoring missing grades) is the maximum
\* amplitude, in column order, followed by that amplitude; it is "N/A"
\* exactly when the table has no subject column.
C8_MaxDispersion == HasMetrics => DispersionAsDefined

\* C8 witness: two subjects, the first with the grades 2, 5, 3, which alone
\* has the maximum amplitude 3 and is the only subject named
C8_Witness ==
  /\ pc = "done" /\ HasMetrics
  /\ Cardinality(SubjectPositions) = 2 /\ Len(result_df.data) = 3
  /\ <<Grade(1, 2), Grade(2, 2), Grade(3, 2)>> = <<Num(2), Num(5), Num(3)>>
  /\ GradesOf(3) # {} /\ AmplitudeOf(3) < 3
  /\ Stat("dispersion_str") = Dispersion(result_df.columns[2], Num(3))

\* C9: the top-3 Insuficiente entry lists exactly min(3, n) distinct subjects
\* ordered by non-increasing count of grades equal to 2, and no unlisted
\* subject has a greater count than a listed one.
C9_Top3Insuficiente == HasMetrics => Top3AsDefined

\* C9 witness: four subjects, the three listed in strictly or weakly falling
\* count and the fourth, with a smaller count than each of them, left out
C9_Witness ==
  /\ pc = "done" /\ HasMetrics
  /\ Cardinality(SubjectPositions) = 4
  /\ \E a, b, c, u \in SubjectPositions :
       /\ Cardinality({a, b, c, u}) = 4
       /\ InsuficienteCount(a) > InsuficienteCount(b)
       /\ InsuficienteCount(b) >= InsuficienteCount(c)
       /\ InsuficienteCount(c) > InsuficienteCount(u)
       /\ Stat("top_3_insuficiente").text =
            join(<<result_df.columns[a], result_df.columns[b], result_df.columns[c]>>)

\* C10: no_negatives + any_negative = total_students - not_evaluated; a
\* student whose every subject grade is missing counts as not evaluated and in
\* no other count, every other student in exactly one of no_negatives and
\* any_negative; with no subject column every student is not evaluated.
C10_CountsPartition ==
  HasMetrics =>
    /\ CountsAsDefined
    /\ Stat("num_no_negatives").n + Stat("num_any_negative").n
         = Stat("total_students").n - Stat("num_not_evaluated").n
    /\ SubjectPositions = {} => Stat("num_not_evaluated") = Stat("total_students")

\* C10 witness: a table with a student that is not evaluated, one without
\* negatives and one with a negative
C10_Witness ==
  /\ pc = "done" /\ HasMetrics
  /\ Stat("num_not_evaluated").n >= 1
  /\ Stat("num_no_negatives").n >= 1
  /\ Stat("num_any_negative").n >= 1

====
